---- MODULE Spec2Model ----
(***************************************************************************)
(* A model of src/src/runlib.rs (in-toto-rs): record_artifact,             *)
(* record_artifacts, run_command, in_toto_run and dir_entry_to_path, over  *)
(* a small explicit filesystem.                                            *)
(*                                                                         *)
(* A path string is modelled as the sequence of its components            *)
(* ("./t/d" is <<".", "t", "d">>); a location of the filesystem is the    *)
(* sequence of names from "/" (<<>>) to the entry.  The process's working  *)
(* directory is "/".                                                       *)
(***************************************************************************)
EXTENDS Integers, Sequences, FiniteSets

\* ------------------------------------------------------------------ bounds

\* Longest list of root paths handed to record_artifacts.
MaxRoots == 2
\* Longest list of algorithm names handed to record_artifacts.
MaxAlgs == 2
\* Longest cmd_args handed to run_command.
MaxArgs == 3
\* Symbolic links one path resolution follows before the OS answers ELOOP.
MaxFollow == 3
\* Calls the caller makes one after the other.
MaxCalls == 2

\* ------------------------------------------------------- values and results

Ok(v) == [ok |-> TRUE, val |-> v, err |-> <<>>]
Err(kind, what) == [ok |-> FALSE, val |-> <<>>, err |-> <<kind, what>>]
Some(v) == [some |-> TRUE, v |-> v]
None == [some |-> FALSE, v |-> <<>>]

Range(s) == {s[i] : i \in DOMAIN s}
SeqsUpTo(S, n) == UNION {[1..k -> S] : k \in 0..n}

\* BTreeMap::new() and BTreeMap::insert: a later insert of a key replaces
\* the earlier value.
EmptyMap == [k \in {} |-> <<>>]
\* An insert into a map made anew: what was there before is lost.
InsertAlone(m, k, v) == [x \in {k} |-> v]
Insert(m, k, v) == [x \in DOMAIN m \cup {k} |-> IF x = k THEN v ELSE m[x]]

\* -------------------------------------------------------------- filesystem

\* A name that is not valid UTF-8 (to_str() answers None for a path with it).
BadName == "0xFF"
IsUtf8(p) == BadName \notin Range(p)

NoEntry == [kind |-> "none", content |-> 0, readable |-> FALSE,
            abs |-> FALSE, comps |-> <<>>]
Dir == [kind |-> "dir", content |-> 0, readable |-> TRUE,
        abs |-> FALSE, comps |-> <<>>]
File(c) == [kind |-> "file", content |-> c, readable |-> TRUE,
            abs |-> FALSE, comps |-> <<>>]
Unreadable(c) == [kind |-> "file", content |-> c, readable |-> FALSE,
                  abs |-> FALSE, comps |-> <<>>]
\* A symbolic link and its text: absolute or relative, and its components.
Link(a, c) == [kind |-> "link", content |-> 0, readable |-> TRUE,
               abs |-> a, comps |-> c]

AllLocs ==
    { <<>>, <<"t">>, <<"t", ".h">>, <<"t", "l">>, <<"t", "d">>, <<"t", "f">>,
      <<"t", "n">>, <<"t", "d", "g">>, <<"t", "d", "m">>, <<BadName>> }

\* The order in which a directory lists its names (readdir order).
NameOrder == <<".h", "l", "d", "f", "g", "m", "n", "t", BadName>>

Lookup(f, loc) == IF loc \in DOMAIN f THEN f[loc] ELSE NoEntry
Parent(loc) == IF loc = <<>> THEN <<>> ELSE SubSeq(loc, 1, Len(loc) - 1)

\* Path resolution as the OS does it, from directory cur: "." stays, ".."
\* goes up, a symbolic link in the middle is always followed and the last
\* one only with followLast; a relative link text resolves against the
\* directory that holds the link.
RECURSIVE Namei(_, _, _, _, _)
Namei(f, cur, comps, followLast, fuel) ==
    IF comps = <<>> THEN Ok(cur)
    ELSE LET c == Head(comps)
             rest == Tail(comps)
             loc == Append(cur, c)
             e == Lookup(f, loc)
             stay == c = "." \/ c = ""
             follow == e.kind = "link" /\ (rest # <<>> \/ followLast)
             \* where the resolution goes on, and with what
             cur1 == IF stay THEN cur
                     ELSE IF c = ".." THEN Parent(cur)
                     ELSE IF e.kind = "dir" THEN loc
                     ELSE IF e.abs THEN <<>> ELSE cur
             comps1 == IF ~stay /\ c # ".." /\ follow THEN e.comps \o rest
                       ELSE rest
             fuel1 == IF ~stay /\ c # ".." /\ follow THEN fuel - 1 ELSE fuel
         IN  IF ~stay /\ c # ".." /\ e.kind = "none"
             THEN Err("Io", <<"ENOENT">>)
             ELSE IF ~stay /\ c # ".." /\ e.kind = "file"
             THEN IF rest = <<>> THEN Ok(loc) ELSE Err("Io", <<"ENOTDIR">>)
             ELSE IF ~stay /\ c # ".." /\ e.kind = "link" /\ ~follow
             THEN Ok(loc)
             ELSE IF ~stay /\ c # ".." /\ follow /\ fuel = 0
             THEN Err("Io", <<"ELOOP">>)
             ELSE Namei(f, cur1, comps1, followLast, fuel1)

\* std::fs::symlink_metadata(path): lstat, from the working directory.
SymlinkMetadata(f, p) ==
    LET r == Namei(f, <<>>, p, FALSE, MaxFollow)
    IN  IF r.ok THEN Ok(Lookup(f, r.val).kind) ELSE r

\* stat (the last link followed), from directory cur.
StatFrom(f, cur, p) == Namei(f, cur, p, TRUE, MaxFollow)
KindAt(f, st) == IF st.ok THEN Lookup(f, st.val).kind ELSE "none"

\* path_clean::clean: "." and empty components go, "x/.." goes, a leading
\* ".." stays, and the empty result is ".".
RECURSIVE CleanInto(_, _)
CleanInto(out, comps) ==
    IF comps = <<>> THEN out
    ELSE LET c == Head(comps)
             out1 == IF c = "." \/ c = "" THEN out
                     ELSE IF c = ".." /\ out # <<>> /\ out[Len(out)] # ".."
                     THEN SubSeq(out, 1, Len(out) - 1)
                     ELSE Append(out, c)
         IN  CleanInto(out1, Tail(comps))

clean(p) == LET r == CleanInto(<<>>, p) IN IF r = <<>> THEN <<".">> ELSE r

\* ------------------------------------------------------- the trees checked

BaseTree ==
    [loc \in AllLocs |->
        IF loc \in {<<>>, <<"t">>} THEN Dir
        ELSE IF loc = <<"t", "f">> THEN File(1)
        ELSE IF loc = <<BadName>> THEN File(9)
        ELSE NoEntry]

LinksOfFlat ==
    { NoEntry,
      Link(TRUE, <<"t", "f">>),      \* -> /t/f
      Link(FALSE, <<"f">>),          \* -> f, beside the link
      Link(FALSE, <<".">>),          \* -> its own directory
      Link(TRUE, <<"t">>),           \* -> /t, its own directory
      Link(TRUE, <<"t", ".h">>),     \* -> /t/.h
      Link(TRUE, <<BadName>>),       \* text that is not UTF-8
      Link(TRUE, <<"nx">>) }         \* dangling

\* t with a hidden entry .h and an entry l, and no directory below it.
FlatTrees ==
    { [BaseTree EXCEPT ![<<"t", ".h">>] = h] :
        h \in {NoEntry, File(2), Unreadable(2), Link(TRUE, <<"t", "f">>)} }
    \cup
    { [BaseTree EXCEPT ![<<"t", ".h">>] = File(2), ![<<"t", "l">>] = l] :
        l \in LinksOfFlat }
    \cup
    { [BaseTree EXCEPT ![<<"t", ".h">>] = h,
                       ![<<"t", "l">>] = Link(TRUE, <<"t", ".h">>)] :
        h \in {Unreadable(2), Link(TRUE, <<"t", "f">>)} }

\* t with a directory d below it, d holding a file g and an entry m.
DeepTrees ==
    { [BaseTree EXCEPT ![<<"t", ".h">>] = File(2), ![<<"t", "l">>] = l,
                       ![<<"t", "d">>] = Dir, ![<<"t", "d", "g">>] = File(3),
                       ![<<"t", "d", "m">>] = m] :
        l \in {NoEntry, Link(TRUE, <<"t", "d">>), Link(FALSE, <<"d">>)},
        m \in {NoEntry,
               Link(FALSE, <<"..">>),         \* -> /t, an ancestor
               Link(FALSE, <<"..", "d">>),    \* -> /t/d, its own directory
               Link(TRUE, <<"t", "f">>)} }

Trees == FlatTrees \cup DeepTrees

\* ------------------------------------------- walkdir, following links

Children(f, loc) ==
    LET Exists(n) == Lookup(f, Append(loc, n)).kind # "none"
    IN  SelectSeq(NameOrder, Exists)

Frame(dir, canon, f) == [dir |-> dir, canon |-> canon, rest |-> Children(f, canon)]

\* WalkDir::new(path).follow_links(true).into_iter()
WalkDirNew(path) == [started |-> FALSE, root |-> path, stack |-> <<>>]

RECURSIVE PopDone(_)
PopDone(stack) ==
    IF stack = <<>> \/ stack[Len(stack)].rest # <<>> THEN stack
    ELSE PopDone(SubSeq(stack, 1, Len(stack) - 1))

\* One entry handled: a link is followed (stat), a broken one is an I/O
\* error, one that leads to a directory open above it is a loop error, and a
\* directory (linked or not) is opened on top of the stack.  Only a followed
\* link is checked for a loop.
HandleStat(f, stack, path, isLink, st) ==
    IF ~st.ok THEN [stack |-> stack, tag |-> "ioerr", path |-> path]
    ELSE IF Lookup(f, st.val).kind # "dir"
    THEN [stack |-> stack, tag |-> "entry", path |-> path]
    ELSE IF isLink /\ \E i \in DOMAIN stack : stack[i].canon = st.val
    THEN [stack |-> stack, tag |-> "loop", path |-> path]
    ELSE [stack |-> Append(stack, Frame(path, st.val, f)),
          tag |-> "entry", path |-> path]

IsLinkAt(f, lst) == lst.ok /\ Lookup(f, lst.val).kind = "link"

HandleEntry(f, stack, path, from, last) ==
    HandleStat(f, stack, path,
               IsLinkAt(f, Namei(f, from, last, FALSE, MaxFollow)),
               StatFrom(f, from, last))

\* walker.next(): the root first, then depth first in listing order.
Yield(w, h) ==
    [w |-> [w EXCEPT !.started = TRUE, !.stack = h.stack],
     tag |-> h.tag, path |-> h.path]

NextOf(f, w, st) ==
    IF st = <<>>
    THEN [w |-> [w EXCEPT !.stack = <<>>], tag |-> "end", path |-> <<>>]
    ELSE Yield(w, HandleEntry(f,
                   [st EXCEPT ![Len(st)].rest = Tail(st[Len(st)].rest)],
                   Append(st[Len(st)].dir, Head(st[Len(st)].rest)),
                   st[Len(st)].canon, <<Head(st[Len(st)].rest)>>))

WalkNext(f, w) ==
    IF ~w.started
    THEN Yield(w, HandleEntry(f, <<>>, w.root, <<>>, w.root))
    ELSE NextOf(f, w, PopDone(w.stack))

\* walker.skip_current_dir(): the directory opened last is closed.
SkipCurrentDir(w) ==
    IF w.stack = <<>> THEN w
    ELSE [w EXCEPT !.stack = SubSeq(w.stack, 1, Len(w.stack) - 1)]

\* ------------------------------------------------ the collaborators

\* HashAlgorithm::return_all(): the supported names and their algorithms.
ReturnAll == [n \in {"sha256", "sha512"} |->
                IF n = "sha256" THEN "Sha256" ELSE "Sha512"]

\* VirtualTargetPath::new: the path kept as it is given; the empty string is
\* no path.
VirtualTargetPathNew(p) ==
    IF p = <<>> THEN Err("IllegalArgument", <<"empty path">>) ELSE Ok(p)

\* crypto::calculate_hashes: one digest of the content per algorithm.
CalculateHashes(content, algs) ==
    Ok([a \in Range(algs) |-> <<a, content>>])

\* ------------------------------------------------------ record_artifact

\* File::open(path) follows links; a directory opens and fails at the read.
OpenAndHash(e, st, vtp, algs) ==
    IF ~st.ok THEN st
    ELSE IF ~e.readable THEN Err("Io", <<"EACCES">>)
    ELSE IF e.kind = "dir" THEN Err("Io", <<"EISDIR">>)
    ELSE IF ~vtp.ok THEN vtp
    ELSE Ok(<<vtp.val, CalculateHashes(e.content, algs).val>>)

OpenAt(f, st) == IF st.ok THEN Lookup(f, st.val) ELSE NoEntry

record_artifact(f, path, algs) ==
    OpenAndHash(OpenAt(f, StatFrom(f, <<>>, path)), StatFrom(f, <<>>, path),
                VirtualTargetPathNew(path), algs)

\* ---------------------------------------------------- dir_entry_to_path

dir_entry_to_path(tag, path) ==
    IF tag = "entry"
    THEN IF IsUtf8(path) THEN Ok(clean(path))
         ELSE Err("Programming", path)
    ELSE IF tag = "loop"
    THEN IF IsUtf8(path) THEN Ok(clean(path))
         ELSE Err("Programming", path)
    ELSE Err("Io", <<"Walkdir Error">>)

\* ----------------------------------------------------- record_artifacts

\* Lines 55-70: the names are looked up in request order; the first unknown
\* one ends the call.
RECURSIVE ValidateFrom(_, _)
ValidateFrom(hashes, map) ==
    IF hashes = <<>> THEN Ok(map)
    ELSE IF Head(hashes) \notin DOMAIN ReturnAll
         THEN Err("UnknownHashAlgorithm", <<Head(hashes)>>)
    ELSE ValidateFrom(Tail(hashes), Append(map, ReturnAll[Head(hashes)]))

\* A selection that reports the unknown name it meets last.
RECURSIVE ValidateLast(_, _, _)
ValidateLast(hashes, map, bad) ==
    IF hashes = <<>>
    THEN IF bad = <<>> THEN Ok(map) ELSE Err("UnknownHashAlgorithm", bad)
    ELSE ValidateLast(Tail(hashes),
                      IF Head(hashes) \in DOMAIN ReturnAll
                      THEN Append(map, ReturnAll[Head(hashes)]) ELSE map,
                      IF Head(hashes) \in DOMAIN ReturnAll
                      THEN bad ELSE <<Head(hashes)>>)
SelectAlgorithmsLast(h) ==
    IF h.some THEN ValidateLast(h.v, <<>>, <<>>) ELSE Ok(<<"Sha256">>)

SelectAlgorithms(h) ==
    IF h.some THEN ValidateFrom(h.v, <<>>) ELSE Ok(<<"Sha256">>)

\* What one turn of the loop hands back: ctl says how the turn ends
\* (continue, break, return with err, or done when the walker is exhausted)
\* and ops counts the filesystem calls it made.
Turn(ctl, w, vis, arts, err, ops) ==
    [ctl |-> ctl, w |-> w, vis |-> vis, arts |-> arts, err |-> err, ops |-> ops]

\* Lines 95-99: the link's text names a regular file, or not.
HashLink(w, vis, arts, path, sm, ra) ==
    IF ~sm.ok THEN Turn("return", w, vis, arts, sm.err, 4)
    ELSE IF sm.val # "file" THEN Turn("continue", w, vis, arts, <<>>, 4)
    ELSE IF ~ra.ok THEN Turn("return", w, vis, arts, ra.err, 5)
    ELSE Turn("continue", w, vis, Insert(arts, ra.val[1], ra.val[2]), <<>>, 5)

\* std::fs::read_link(path): the text of the link at path.
ReadLink(f, path) ==
    Lookup(f, Namei(f, <<>>, path, FALSE, MaxFollow).val).comps

\* Lines 86-100: the entry at path is a symbolic link.
SymlinkArm(f, w, vis, arts, algs, path, text) ==
    IF path \in vis
    THEN Turn("continue", SkipCurrentDir(w), vis, arts, <<>>, 2)
    ELSE IF ~IsUtf8(text)
    THEN Turn("break", w, vis \cup {path}, arts, <<>>, 3)
    ELSE HashLink(w, vis \cup {path}, arts, path, SymlinkMetadata(f, text),
                  record_artifact(f, path, algs))

\* Lines 103-106: the entry at path is a regular file.
FileArm(w, vis, arts, ra) ==
    IF ~ra.ok THEN Turn("return", w, vis, arts, ra.err, 3)
    ELSE Turn("continue", w, vis, Insert(arts, ra.val[1], ra.val[2]), <<>>, 3)

\* Lines 83-106: the entry's own type decides.
Arms(f, w, vis, arts, algs, path, md) ==
    IF ~md.ok THEN Turn("return", w, vis, arts, md.err, 2)
    ELSE IF md.val = "link"
    THEN SymlinkArm(f, w, vis, arts, algs, path, ReadLink(f, path))
    ELSE IF md.val = "file"
    THEN FileArm(w, vis, arts, record_artifact(f, path, algs))
    ELSE Turn("continue", w, vis, arts, <<>>, 2)

\* Lines 79-82: the walker's next entry and its path.
Entry(f, nx, pr, vis, arts, algs) ==
    IF nx.tag = "end" THEN Turn("done", nx.w, vis, arts, <<>>, 1)
    ELSE IF ~pr.ok THEN Turn("return", nx.w, vis, arts, pr.err, 1)
    ELSE Arms(f, nx.w, vis, arts, algs, pr.val, SymlinkMetadata(f, pr.val))

PathOf(nx) == dir_entry_to_path(nx.tag, nx.path)

\* Lines 79-107: one turn of the loop over the walker.
LoopBody(f, w0, vis, arts, algs) ==
    Entry(f, WalkNext(f, w0), PathOf(WalkNext(f, w0)), vis, arts, algs)

\* ---------------------------------------------------------- run_command

\* A string is the sequence of its code points; a byte stream, of its bytes.
\* String::from_utf8: one byte below 128, or a lead byte 0xC2..0xDF and a
\* continuation byte 0x80..0xBF, decode to one code point; anything else in
\* the streams modelled is an error.
RECURSIVE FromUtf8Into(_, _)
FromUtf8Into(out, bytes) ==
    IF bytes = <<>> THEN Ok(out)
    ELSE IF bytes[1] >= 128
            /\ ~(/\ bytes[1] >= 194 /\ bytes[1] <= 223 /\ Len(bytes) >= 2
                 /\ bytes[2] >= 128 /\ bytes[2] <= 191)
    THEN Err("Io", <<"Utf8Error">>)
    ELSE FromUtf8Into(
            Append(out, IF bytes[1] < 128 THEN bytes[1]
                        ELSE (bytes[1] - 192) * 64 + (bytes[2] - 128)),
            SubSeq(bytes, IF bytes[1] < 128 THEN 2 ELSE 3, Len(bytes)))

FromUtf8(bytes) == FromUtf8Into(<<>>, bytes)

\* i32::to_string: the decimal digits, a minus sign first when negative.
RECURSIVE Digits(_)
Digits(n) == IF n < 10 THEN <<48 + n>> ELSE Append(Digits(n \div 10), 48 + (n % 10))
to_string(n) == IF n < 0 THEN <<45>> \o Digits(0 - n) ELSE Digits(n)

\* "Process terminated by signal" (line 183).
SignalText ==
    <<80, 114, 111, 99, 101, 115, 115, 32, 116, 101, 114, 109, 105, 110, 97, 116, 101, 100, 32, 98, 121, 32, 115, 105, 103, 110, 97, 108>>

\* A status text that takes a missing exit code for 0.
StatusTextOrZero(code) == IF code.some THEN to_string(code.v) ELSE to_string(0)

\* Lines 181-184.
StatusText(code) == IF code.some THEN to_string(code.v) ELSE SignalText

ByproductsOf(stdout, stderr, status) ==
    [k \in {"stdout", "stderr", "return-value"} |->
        IF k = "stdout" THEN stdout ELSE IF k = "stderr" THEN stderr ELSE status]

\* A decoding that lets a stderr that is not UTF-8 pass as the empty text.
DecodeLossy(out) ==
    IF ~FromUtf8(out.stdout).ok THEN FromUtf8(out.stdout)
    ELSE Ok(ByproductsOf(FromUtf8(out.stdout).val,
                         IF FromUtf8(out.stderr).ok
                         THEN FromUtf8(out.stderr).val ELSE <<>>,
                         StatusText(out.code)))

\* Lines 161-190: the Output turned into the byproducts, or the first
\* stream that does not decode turned into the error.
Decode(out) ==
    IF ~FromUtf8(out.stdout).ok THEN FromUtf8(out.stdout)
    ELSE IF ~FromUtf8(out.stderr).ok THEN FromUtf8(out.stderr)
    ELSE Ok(ByproductsOf(FromUtf8(out.stdout).val, FromUtf8(out.stderr).val,
                         StatusText(out.code)))

\* std::fs::canonicalize: the absolute path, every link resolved; the
\* leading empty component stands for the leading "/".
Canonicalize(f, arg) ==
    IF StatFrom(f, <<>>, arg).ok THEN Ok(<<"">> \o StatFrom(f, <<>>, arg).val)
    ELSE StatFrom(f, <<>>, arg)

\* Lines 135-141: the value of the match: the canonical path when there is
\* one and it is UTF-8, the argument otherwise.
Resolved(f, arg) ==
    IF Canonicalize(f, arg).ok /\ IsUtf8(Canonicalize(f, arg).val)
    THEN Canonicalize(f, arg).val
    ELSE arg

\* A closure that hands on the value of its match.
ArgClosureResolved(f, arg) ==
    IF VirtualTargetPathNew(arg).ok THEN Resolved(f, arg) ELSE arg

\* Lines 132-144: the closure mapped over cmd_args[1..]: the match is a
\* statement ended by ";", its value is dropped, and the closure's value is
\* the argument itself.
ArgClosure(f, arg) ==
    LET dropped == IF VirtualTargetPathNew(arg).ok THEN Resolved(f, arg) ELSE arg
    IN  arg

\* Lines 130-145.
ArgsOf(f, cmd) == [i \in 1..(Len(cmd) - 1) |-> ArgClosure(f, cmd[i + 1])]

\* The programs found on the PATH.
Executables == {<<"sh">>}

\* Lines 147-154: Command::new(executable).args(args).current_dir(dir) can
\* be spawned: the program is found and the directory is one.
CanSpawn(f, exe, dir) ==
    /\ exe \in Executables
    /\ dir.some => KindAt(f, StatFrom(f, <<>>, dir.v)) = "dir"

\* ------------------------------------------------------------- state

VARIABLES
    fs,                \* the filesystem: location -> entry
    changed,           \* the tree was changed since the first call returned
    top,               \* the public function the caller is in, or "none"
    calls,             \* calls started so far
    args,              \* the arguments of the caller's call
    ret,               \* what the caller's last call returned
    prev,              \* what the call before it returned
    \* record_artifacts
    ra_pc,             \* "idle", "validate", "for", "loop", "return"
    roots,             \* the paths argument
    paths,             \* the root paths still to walk
    hash_names,        \* the hash_algorithms argument (an Option)
    hash_algorithms,   \* the validated algorithms
    artifacts,
    walker,
    visited_sym_links,
    ra_ret,            \* the Result the call returns
    fs_ops,            \* filesystem calls made by the call so far
    \* run_command
    cmd_pc,            \* "idle", "args", "spawn", "wait", "emit", "decode",
                       \* "return", "panic"
    cmd_args,
    run_dir,
    command,           \* the Command built: program, arguments, directory
    child,             \* the Command the child was spawned from, once it is
    output,            \* the child's Output
    emitted,           \* the streams written to the caller's stdout, stderr
    cmd_ret,
    \* in_toto_run
    phase,             \* "idle", "materials", "command", "products", "assemble"
    materials,
    byproducts,
    products,
    trace              \* the steps of the run begun and ended, in order

raVars == <<ra_pc, roots, paths, hash_names, hash_algorithms, artifacts, walker,
            visited_sym_links, ra_ret, fs_ops>>
cmdVars == <<cmd_pc, cmd_args, run_dir, command, child, output, emitted,
            cmd_ret>>
runVars == <<phase, materials, byproducts, products, trace>>
callVars == <<top, calls, args, ret, prev>>
vars == <<fs, changed, callVars, raVars, cmdVars, runVars>>

Pending == [ok |-> FALSE, val |-> <<>>, err |-> <<"pending", <<>>>>]
\* status.code() of a child ended by a signal.
NoCode == [some |-> FALSE, v |-> 0]
NoOutput == [stdout |-> <<>>, stderr |-> <<>>, code |-> NoCode]
NoCommand == [exe |-> <<>>, args |-> <<>>, dir |-> None]
NoChild == [some |-> FALSE, v |-> NoCommand]
NoArgs == [paths |-> <<>>, hash |-> None, products |-> <<>>, cmd |-> <<>>,
           dir |-> None, key |-> FALSE]

InitRest ==
    /\ changed = FALSE
    /\ top = "none" /\ calls = 0 /\ args = NoArgs
    /\ ret = Pending /\ prev = Pending
    /\ ra_pc = "idle" /\ roots = <<>> /\ paths = <<>> /\ hash_names = None
    /\ hash_algorithms = <<>> /\ artifacts = EmptyMap
    /\ walker = WalkDirNew(<<>>) /\ visited_sym_links = {}
    /\ ra_ret = Pending /\ fs_ops = 0
    /\ cmd_pc = "idle" /\ cmd_args = <<>> /\ run_dir = None
    /\ command = NoCommand
    /\ child = NoChild /\ output = NoOutput /\ emitted = <<>>
    /\ cmd_ret = Pending
    /\ phase = "idle" /\ materials = Pending /\ byproducts = Pending
    /\ products = Pending /\ trace = <<>>

\* ------------------------------------------------------------ inputs

RootPaths == {<<"t">>, <<".", "t", "d">>, <<"nx">>}
PathLists == SeqsUpTo(RootPaths, MaxRoots)
AlgNames == {"sha256", "sha512", "md17", "md5"}
AlgInputs == {None} \cup {Some(s) : s \in SeqsUpTo(AlgNames, MaxAlgs)}

\* ------------------------------------- record_artifacts, step by step

\* A set of visited links that outlives the traversal.
KeptVisited(old) == old

\* Line 77: the set of visited links, new for every root path.
NewVisited(old) == {}

\* The call begins (line 50); its locals are not yet set.
EnterRecordArtifacts(p, h) ==
    /\ ra_pc' = "validate"
    /\ roots' = p
    /\ paths' = p
    /\ hash_names' = h
    /\ ra_ret' = Pending
    /\ fs_ops' = 0
    /\ UNCHANGED <<hash_algorithms, artifacts, walker, visited_sym_links>>

\* Lines 55-73.
RA_Validate ==
    /\ ra_pc = "validate"
    /\ LET r == SelectAlgorithms(hash_names)
       IN  IF r.ok
           THEN /\ hash_algorithms' = r.val
                /\ artifacts' = EmptyMap
                /\ ra_pc' = "for"
                /\ ra_ret' = ra_ret
           ELSE /\ ra_ret' = r
                /\ ra_pc' = "return"
                /\ UNCHANGED <<hash_algorithms, artifacts>>
    /\ UNCHANGED <<roots, paths, hash_names, walker, visited_sym_links, fs_ops>>
    /\ UNCHANGED <<fs, changed, callVars, cmdVars, runVars>>

\* Lines 75-77, and line 109 when no path is left.
RA_For ==
    /\ ra_pc = "for"
    /\ IF paths = <<>>
       THEN /\ ra_ret' = Ok(artifacts)
            /\ ra_pc' = "return"
            /\ UNCHANGED <<paths, walker, visited_sym_links>>
       ELSE /\ walker' = WalkDirNew(Head(paths))
            /\ visited_sym_links' = NewVisited(visited_sym_links)
            /\ paths' = Tail(paths)
            /\ ra_pc' = "loop"
            /\ ra_ret' = ra_ret
    /\ UNCHANGED <<roots, hash_names, hash_algorithms, artifacts, fs_ops>>
    /\ UNCHANGED <<fs, changed, callVars, cmdVars, runVars>>

\* Lines 78-107: one turn of the loop.
RA_Loop ==
    /\ ra_pc = "loop"
    /\ LET r == LoopBody(fs, walker, visited_sym_links, artifacts,
                         hash_algorithms)
       IN  /\ walker' = r.w
           /\ visited_sym_links' = r.vis
           /\ artifacts' = r.arts
           /\ fs_ops' = fs_ops + r.ops
           /\ ra_pc' = IF r.ctl = "continue" THEN "loop"
                       ELSE IF r.ctl = "return" THEN "return"
                       ELSE "for"
           /\ ra_ret' = IF r.ctl = "return"
                        THEN [ok |-> FALSE, val |-> <<>>, err |-> r.err]
                        ELSE ra_ret
    /\ UNCHANGED <<roots, paths, hash_names, hash_algorithms>>
    /\ UNCHANGED <<fs, changed, callVars, cmdVars, runVars>>

RecordArtifactsStep == RA_Validate \/ RA_For \/ RA_Loop

\* ------------------------------- the caller of record_artifacts

CallRecordArtifacts ==
    /\ top = "none" /\ calls = 0
    /\ \E p \in PathLists, h \in AlgInputs :
          /\ args' = [NoArgs EXCEPT !.paths = p, !.hash = h]
          /\ EnterRecordArtifacts(p, h)
    /\ top' = "record_artifacts"
    /\ calls' = calls + 1
    /\ UNCHANGED <<ret, prev, fs, changed, cmdVars, runVars>>

\* A second, independent call with the same arguments.
CallRecordArtifactsAgain ==
    /\ top = "none" /\ calls > 0 /\ calls < MaxCalls
    /\ args.cmd = <<>>
    /\ EnterRecordArtifacts(args.paths, args.hash)
    /\ top' = "record_artifacts"
    /\ calls' = calls + 1
    /\ prev' = ret
    /\ UNCHANGED <<args, ret, fs, changed, cmdVars, runVars>>

ReturnRecordArtifacts ==
    /\ top = "record_artifacts" /\ ra_pc = "return"
    /\ ret' = ra_ret
    /\ top' = "none"
    /\ ra_pc' = "idle"
    /\ UNCHANGED <<calls, args, prev, fs, changed, cmdVars, runVars>>
    /\ UNCHANGED <<roots, paths, hash_names, hash_algorithms, artifacts,
                   walker, visited_sym_links, ra_ret, fs_ops>>

\* Between two calls somebody rewrites the file t/f.
ChangeTree ==
    /\ top = "none" /\ calls > 0 /\ calls < MaxCalls /\ ~changed
    /\ fs' = [fs EXCEPT ![<<"t", "f">>] = File(4)]
    /\ changed' = TRUE
    /\ UNCHANGED <<callVars, raVars, cmdVars, runVars>>

\* ------------------------------------------ run_command, step by step

Log(e) == IF top = "in_toto_run" THEN Append(trace, e) ELSE trace

\* What the child may leave on its streams, and how it may end.
Streams == {<<>>, <<104, 105>>, <<195, 169>>, <<195>>}
ExitCodes == {Some(0), Some(101), NoCode}
ChildOutputs ==
    {[stdout |-> o, stderr |-> e, code |-> c] :
        o \in Streams, e \in Streams, c \in ExitCodes}
\* What the child may do to the tree: nothing, or write the new file t/n.
ChildEffects(f) == {f, [f EXCEPT ![<<"t", "n">>] = File(5)]}

\* Streams written only when both decode: the decoding done first.
EmittedIfDecodes(out, n) ==
    IF Decode(out).ok THEN SubSeq(<<out.stdout, out.stderr>>, 1, n) ELSE <<>>

\* Lines 157-158: what the caller's streams have got after n writes went
\* well: the captured stdout first, the captured stderr second, as bytes.
Emitted(out, n) == SubSeq(<<out.stdout, out.stderr>>, 1, n)

\* The call begins (line 128).
EnterRunCommand(c, d) ==
    /\ cmd_pc' = "args"
    /\ cmd_args' = c
    /\ run_dir' = d
    /\ command' = NoCommand
    /\ child' = NoChild
    /\ output' = NoOutput
    /\ emitted' = <<>>
    /\ cmd_ret' = Pending

\* Lines 129-152: cmd_args[0] panics on an empty slice.
RC_Args ==
    /\ cmd_pc = "args"
    /\ IF cmd_args = <<>>
       THEN /\ cmd_pc' = "panic"
            /\ UNCHANGED command
       ELSE /\ command' = [exe |-> cmd_args[1], args |-> ArgsOf(fs, cmd_args),
                           dir |-> run_dir]
            /\ cmd_pc' = "spawn"
    /\ UNCHANGED <<cmd_args, run_dir, child, output, emitted, cmd_ret>>
    /\ UNCHANGED <<fs, changed, callVars, raVars, runVars>>

\* Line 154, cmd.output()?: the child is spawned, or the call ends.
RC_Spawn ==
    /\ cmd_pc = "spawn"
    /\ IF CanSpawn(fs, command.exe, command.dir)
       THEN /\ child' = Some(command)
            /\ cmd_pc' = "wait"
            /\ trace' = Log(<<"command", "begin">>)
            /\ UNCHANGED cmd_ret
       ELSE /\ cmd_ret' = Err("Io", <<"spawn">>)
            /\ cmd_pc' = "return"
            /\ UNCHANGED <<child, trace>>
    /\ UNCHANGED <<cmd_args, run_dir, command, output, emitted>>
    /\ UNCHANGED <<fs, changed, callVars, raVars>>
    /\ UNCHANGED <<phase, materials, byproducts, products>>

\* Line 154, cmd.output(): the child has run and its output is collected.
RC_Wait ==
    /\ cmd_pc = "wait"
    /\ \E o \in ChildOutputs : output' = o
    /\ \E f \in ChildEffects(fs) : fs' = f
    /\ cmd_pc' = "emit"
    /\ trace' = Log(<<"command", "end">>)
    /\ UNCHANGED <<cmd_args, run_dir, command, child, emitted, cmd_ret>>
    /\ UNCHANGED <<changed, callVars, raVars>>
    /\ UNCHANGED <<phase, materials, byproducts, products>>

\* Lines 157-158: stdout, then stderr, written to the caller's streams;
\* either write may fail.
RC_Emit ==
    /\ cmd_pc = "emit"
    /\ \/ /\ emitted' = Emitted(output, 0)
          /\ cmd_ret' = Err("Io", <<"write stdout">>)
          /\ cmd_pc' = "return"
       \/ /\ emitted' = Emitted(output, 1)
          /\ cmd_ret' = Err("Io", <<"write stderr">>)
          /\ cmd_pc' = "return"
       \/ /\ emitted' = Emitted(output, 2)
          /\ cmd_pc' = "decode"
          /\ UNCHANGED cmd_ret
    /\ UNCHANGED <<cmd_args, run_dir, command, child, output>>
    /\ UNCHANGED <<fs, changed, callVars, raVars, runVars>>

\* Lines 161-190.
RC_Decode ==
    /\ cmd_pc = "decode"
    /\ cmd_ret' = Decode(output)
    /\ cmd_pc' = "return"
    /\ UNCHANGED <<cmd_args, run_dir, command, child, output, emitted>>
    /\ UNCHANGED <<fs, changed, callVars, raVars, runVars>>

RunCommandStep == RC_Args \/ RC_Spawn \/ RC_Wait \/ RC_Emit \/ RC_Decode

\* ------------------------------------------ the caller of run_command

ArgWords == {<<"t">>, <<"-c">>, <<>>}
CmdLines ==
    {<<>>} \cup {<<e>> \o a : e \in {<<"sh">>, <<"command-does-not-exist">>},
                              a \in SeqsUpTo(ArgWords, MaxArgs)}
RunDirs == {None, Some(<<"t">>), Some(<<"nx">>)}

CallRunCommand ==
    /\ top = "none" /\ calls = 0
    /\ \E c \in CmdLines, d \in RunDirs :
          /\ args' = [NoArgs EXCEPT !.cmd = c, !.dir = d]
          /\ EnterRunCommand(c, d)
    /\ top' = "run_command"
    /\ calls' = calls + 1
    /\ UNCHANGED <<ret, prev, fs, changed, raVars, runVars>>

ReturnRunCommand ==
    /\ top = "run_command" /\ cmd_pc = "return"
    /\ ret' = cmd_ret
    /\ top' = "none"
    /\ cmd_pc' = "idle"
    /\ UNCHANGED <<cmd_args, run_dir, command, child, output, emitted, cmd_ret>>
    /\ UNCHANGED <<calls, args, prev, fs, changed, raVars, runVars>>

\* An empty cmd_args answered with an error value the caller gets.
UnwindAsError ==
    /\ top \in {"run_command", "in_toto_run"} /\ cmd_pc = "panic"
    /\ top' = "none"
    /\ ret' = Err("IllegalArgument", <<"empty cmd_args">>)
    /\ UNCHANGED <<calls, args, prev, fs, changed, raVars, cmdVars, runVars>>

\* The panic of line 129 unwinds through the caller: no value is returned.
Unwind ==
    /\ top \in {"run_command", "in_toto_run"} /\ cmd_pc = "panic"
    /\ top' = "panicked"
    /\ UNCHANGED <<calls, args, ret, prev, fs, changed, raVars, cmdVars, runVars>>

\* --------------------------------------------------------- in_toto_run

\* The ? of lines 232, 235 and 238: an Err ends in_toto_run at once.
TryNever(r) == FALSE
Try(r) == ~r.ok

\* The three steps in another order.
StepAfterSwapped(step) ==
    IF step = "materials" THEN "products"
    ELSE IF step = "products" THEN "command"
    ELSE "assemble"

\* Lines 232-241: what follows each step.
StepAfter(step) ==
    IF step = "materials" THEN "command"
    ELSE IF step = "command" THEN "products"
    ELSE "assemble"

\* Lines 241-252: the link built from what was collected, signed with the
\* key when there is one.
Assemble(name, m, b, p, key) ==
    Ok([name |-> name, materials |-> m, byproducts |-> b, products |-> p,
        signed |-> key])

RunPaths == {<<>>, <<<<"t">>>>, <<<<"nx">>>>}
RunCmdLines == {<<>>, <<<<"sh">>, <<"t">>>>, <<<<"command-does-not-exist">>>>}
RunAlgs == {None, Some(<<"md17">>)}

CallInTotoRun ==
    /\ top = "none" /\ calls = 0
    /\ \E mp \in RunPaths, pp \in RunPaths, c \in RunCmdLines, h \in RunAlgs,
          k \in BOOLEAN :
          /\ args' = [paths |-> mp, hash |-> h, products |-> pp, cmd |-> c,
                      dir |-> None, key |-> k]
          /\ EnterRecordArtifacts(mp, h)
    /\ top' = "in_toto_run"
    /\ calls' = calls + 1
    /\ phase' = "materials"
    /\ materials' = Pending /\ byproducts' = Pending /\ products' = Pending
    /\ trace' = <<<<"materials", "begin">>>>
    /\ UNCHANGED <<ret, prev, fs, changed, cmdVars>>

\* in_toto_run returns r.
ReturnFromRun(r, tr) ==
    /\ ret' = r
    /\ top' = "none"
    /\ phase' = "idle"
    /\ trace' = tr
    /\ ra_pc' = "idle" /\ cmd_pc' = "idle"
    /\ UNCHANGED <<roots, paths, hash_names, hash_algorithms, artifacts,
                   walker, visited_sym_links, ra_ret, fs_ops>>
    /\ UNCHANGED <<cmd_args, run_dir, command, child, output, emitted, cmd_ret>>

\* in_toto_run goes on with the step nxt.
Begin(nxt, tr) ==
    /\ phase' = nxt
    /\ UNCHANGED <<ret, top>>
    /\ IF nxt = "command"
       THEN /\ EnterRunCommand(args.cmd, args.dir)
            /\ trace' = tr
            /\ ra_pc' = "idle"
            /\ UNCHANGED <<roots, paths, hash_names, hash_algorithms,
                           artifacts, walker, visited_sym_links, ra_ret, fs_ops>>
       ELSE IF nxt = "products"
       THEN /\ EnterRecordArtifacts(args.products, args.hash)
            /\ trace' = Append(tr, <<"products", "begin">>)
            /\ cmd_pc' = "idle"
            /\ UNCHANGED <<cmd_args, run_dir, command, child, output, emitted,
                           cmd_ret>>
       ELSE /\ trace' = tr
            /\ ra_pc' = "idle" /\ cmd_pc' = "idle"
            /\ UNCHANGED <<roots, paths, hash_names, hash_algorithms,
                           artifacts, walker, visited_sym_links, ra_ret, fs_ops>>
            /\ UNCHANGED <<cmd_args, run_dir, command, child, output, emitted,
                           cmd_ret>>

\* Line 232: record_artifacts(material_paths, hash_algorithms)? has returned.
ITR_Materials ==
    /\ top = "in_toto_run" /\ phase = "materials" /\ ra_pc = "return"
    /\ materials' = ra_ret
    /\ IF Try(ra_ret)
       THEN ReturnFromRun(ra_ret, Append(trace, <<"materials", "end">>))
       ELSE Begin(StepAfter("materials"), Append(trace, <<"materials", "end">>))
    /\ UNCHANGED <<byproducts, products, calls, args, prev, fs, changed>>

\* Line 235: run_command(cmd_args, run_dir)? has returned.
ITR_Command ==
    /\ top = "in_toto_run" /\ phase = "command" /\ cmd_pc = "return"
    /\ byproducts' = cmd_ret
    /\ IF Try(cmd_ret)
       THEN ReturnFromRun(cmd_ret, trace)
       ELSE Begin(StepAfter("command"), trace)
    /\ UNCHANGED <<materials, products, calls, args, prev, fs, changed>>

\* Line 238: record_artifacts(product_paths, hash_algorithms)? has returned.
ITR_Products ==
    /\ top = "in_toto_run" /\ phase = "products" /\ ra_pc = "return"
    /\ products' = ra_ret
    /\ IF Try(ra_ret)
       THEN ReturnFromRun(ra_ret, Append(trace, <<"products", "end">>))
       ELSE Begin(StepAfter("products"), Append(trace, <<"products", "end">>))
    /\ UNCHANGED <<materials, byproducts, calls, args, prev, fs, changed>>

\* Lines 241-252.
ITR_Assemble ==
    /\ top = "in_toto_run" /\ phase = "assemble"
    /\ ReturnFromRun(Assemble("example", materials.val, byproducts.val,
                              products.val, args.key), trace)
    /\ UNCHANGED <<materials, byproducts, products, calls, args, prev, fs,
                   changed>>

InTotoRunStep == ITR_Materials \/ ITR_Command \/ ITR_Products \/ ITR_Assemble

\* ------------------------------------------------------ specifications

Init == fs \in Trees /\ InitRest

Next ==
    \/ CallRecordArtifacts
    \/ CallRecordArtifactsAgain
    \/ ReturnRecordArtifacts
    \/ ChangeTree
    \/ RecordArtifactsStep

\* The caller calls record_artifacts.
Spec == Init /\ [][Next]_vars

CmdTrees == {BaseTree, [BaseTree EXCEPT ![<<"t", "f">>] = NoEntry]}

InitCmd == fs \in CmdTrees /\ InitRest

NextCmd ==
    \/ CallRunCommand
    \/ ReturnRunCommand
    \/ Unwind
    \/ RunCommandStep

\* The caller calls run_command.
SpecCmd == InitCmd /\ [][NextCmd]_vars

RunTrees ==
    {BaseTree,
     [BaseTree EXCEPT ![<<"t", ".h">>] = Unreadable(2)],
     [BaseTree EXCEPT ![<<"t", "l">>] = Link(TRUE, <<"t", "f">>)]}

InitRun == fs \in RunTrees /\ InitRest

NextRun ==
    \/ CallInTotoRun
    \/ InTotoRunStep
    \/ RecordArtifactsStep
    \/ RunCommandStep
    \/ Unwind

\* The caller calls in_toto_run.
SpecRun == InitRun /\ [][NextRun]_vars

\* ------------------------------------------ what the claims speak of

\* The supported algorithm names.
Supported == {"sha256", "sha512"}
HasUnknown(h) == h.some /\ \E i \in DOMAIN h.v : h.v[i] \notin Supported
FirstUnknown(v) ==
    v[CHOOSE i \in DOMAIN v :
        v[i] \notin Supported /\ \A j \in 1..(i - 1) : v[j] \in Supported]
AlgorithmsValid(h) == ~HasUnknown(h)

IsPrefix(a, b) == Len(a) <= Len(b) /\ SubSeq(b, 1, Len(a)) = a

\* The link at loc leads to the directory that holds it or to one above it.
CycleLinkAt(f, loc) ==
    /\ Lookup(f, loc).kind = "link"
    /\ LET st == StatFrom(f, Parent(loc), <<loc[Len(loc)]>>)
       IN  st.ok /\ KindAt(f, st) = "dir" /\ IsPrefix(st.val, Parent(loc))
LinkLocs(f) == {loc \in AllLocs : Lookup(f, loc).kind = "link"}
DanglingAt(f, loc) == ~StatFrom(f, Parent(loc), <<loc[Len(loc)]>>).ok
NoUnreadable(f) ==
    \A loc \in AllLocs : Lookup(f, loc).kind = "file" => Lookup(f, loc).readable
RootsExist(f, rs) == \A i \in DOMAIN rs : StatFrom(f, <<>>, rs[i]).ok

\* The locations at or below the root path r.
Below(f, r) ==
    LET st == StatFrom(f, <<>>, r)
    IN  IF st.ok THEN {loc \in AllLocs : IsPrefix(st.val, loc)} ELSE {}

\* Something under the root paths fails other than by an ancestor cycle: a
\* root that does not exist, a file that cannot be read, a link that
\* dangles, a link whose text is not UTF-8.
FailureUnder(f, rs) ==
    \E i \in DOMAIN rs :
        \/ ~StatFrom(f, <<>>, rs[i]).ok
        \/ \E loc \in Below(f, rs[i]) :
              \/ Lookup(f, loc).kind = "file" /\ ~Lookup(f, loc).readable
              \/ Lookup(f, loc).kind = "link"
                 /\ (DanglingAt(f, loc) \/ ~IsUtf8(Lookup(f, loc).comps))

\* A tree every entry of which can be read, without cycles.
ValidTree(f) ==
    /\ NoUnreadable(f)
    /\ \A loc \in LinkLocs(f) :
          /\ ~DanglingAt(f, loc)
          /\ ~CycleLinkAt(f, loc)
          /\ IsUtf8(Lookup(f, loc).comps)

EntryNames == {".h", "l", "d", "f", "g", "m", "n"}

\* p, a path below the root path r, leads through directories to a regular
\* file (links followed).
ReachesFile(f, r, s) ==
    /\ KindAt(f, StatFrom(f, <<>>, r \o s)) = "file"
    /\ \A k \in 0..(Len(s) - 1) :
          KindAt(f, StatFrom(f, <<>>, r \o SubSeq(s, 1, k))) = "dir"
ReachableFiles(f, rs) ==
    UNION { { clean(rs[i] \o s) : s \in {x \in SeqsUpTo(EntryNames, 3) :
                                            ReachesFile(f, rs[i], x)} } :
            i \in DOMAIN rs }

\* ---------------------------------------------------------------- claims

\* C2: when the algorithm names hold an unsupported name, the call to
\* record_artifacts ends with UnknownHashAlgorithm carrying the first
\* unsupported name in request order, and no filesystem call has been made,
\* whatever the root paths are.
C2_UnknownAlgorithmBeforeFilesystem ==
    (ra_pc \in {"for", "loop", "return"} /\ HasUnknown(hash_names))
        => /\ ra_pc = "return"
           /\ ra_ret = Err("UnknownHashAlgorithm", <<FirstUnknown(hash_names.v)>>)
           /\ fs_ops = 0

C2_Witness ==
    /\ ra_pc = "return"
    /\ hash_names = Some(<<"md5", "md17">>)
    /\ Len(roots) = 2
    /\ ~ra_ret.ok /\ ra_ret.err[1] = "UnknownHashAlgorithm"

\* C3: with a symbolic link that leads back to a directory above it (and
\* nothing else amiss: the roots exist, every file can be read, every link is
\* such a cycle), record_artifacts returns a map and not an error.
C3_CycleLinkReturnsMap ==
    ( /\ ra_pc = "return"
      /\ AlgorithmsValid(hash_names)
      /\ roots # <<>> /\ RootsExist(fs, roots)
      /\ NoUnreadable(fs)
      /\ LinkLocs(fs) # {}
      /\ \A loc \in LinkLocs(fs) : CycleLinkAt(fs, loc) )
        => ra_ret.ok

\* C4: a failure under the root paths other than an ancestor cycle makes
\* record_artifacts return an error, never a map.
C4_FailureReturnsError ==
    ( /\ ra_pc = "return"
      /\ AlgorithmsValid(hash_names)
      /\ FailureUnder(fs, roots) )
        => ~ra_ret.ok

\* C9: with the tree unchanged, a second independent call of
\* record_artifacts with the same arguments returns what the first returned.
C9_SecondCallSameMap ==
    (top = "none" /\ calls >= 2 /\ ~changed) => ret = prev

C9_Witness ==
    /\ top = "none" /\ calls = 2 /\ ~changed
    /\ ret.ok /\ prev.ok
    /\ <<"t", "l">> \in DOMAIN ret.val
    /\ <<"t", "f">> \in DOMAIN ret.val

\* C10: on a valid tree without cycles the keys of the returned map are
\* exactly the regular files reachable from the root paths, links followed.
C10_KeysAreReachableFiles ==
    ( /\ ra_pc = "return" /\ ra_ret.ok
      /\ RootsExist(fs, roots)
      /\ ValidTree(fs) )
        => DOMAIN ra_ret.val = ReachableFiles(fs, roots)

\* The events of one in_toto_run, in the order the contract gives them.
StepOrder ==
    << <<"materials", "begin">>, <<"materials", "end">>,
       <<"command", "begin">>, <<"command", "end">>,
       <<"products", "begin">>, <<"products", "end">> >>

\* C1: in in_toto_run the materials are recorded before the command is
\* started and the products only after it has finished; each of the three
\* steps happens at most once and in no other order.
C1_MaterialsCommandProducts ==
    /\ IsPrefix(trace, StepOrder)
    /\ (top = "in_toto_run" /\ phase = "materials") => ~child.some
    /\ (top = "in_toto_run" /\ phase = "products")
            => child.some /\ cmd_pc = "idle" /\ materials.ok

C1_Witness ==
    /\ top = "none" /\ calls = 1 /\ ret.ok
    /\ trace = StepOrder
    /\ <<"t", "n">> \in DOMAIN products.val
    /\ <<"t", "n">> \notin DOMAIN materials.val

Failed(r) == r # Pending /\ ~r.ok

\* C5: in_toto_run ends at the first step that fails and returns its error:
\* after failed materials no command is started, after a failed command no
\* products are recorded, and no step is taken twice.
C5_AbortsAtFirstFailure ==
    /\ Failed(materials)
          => /\ top = "none" /\ ret = materials
             /\ ~child.some /\ byproducts = Pending /\ products = Pending
    /\ Failed(byproducts)
          => /\ top = "none" /\ ret = byproducts
             /\ products = Pending
             /\ <<"products", "begin">> \notin Range(trace)
    /\ Failed(products) => top = "none" /\ ret = products
    /\ \A i, j \in DOMAIN trace : trace[i] = trace[j] => i = j

C5_Witness ==
    /\ top = "none" /\ calls = 1
    /\ materials.ok /\ Failed(byproducts) /\ child.some
    /\ ret = byproducts /\ products = Pending

\* The number a text of decimal digits stands for.
RECURSIVE DecimalValue(_)
DecimalValue(s) ==
    IF s = <<>> THEN 0
    ELSE DecimalValue(SubSeq(s, 1, Len(s) - 1)) * 10 + (s[Len(s)] - 48)

IsDecimal(s) == s # <<>> /\ \A i \in DOMAIN s : s[i] \in 48..57

\* C6: a successful run_command returns a map with exactly the keys stdout,
\* stderr and return-value; return-value is the exit code in decimal, or
\* the fixed text when a signal ended the process.
C6_ThreeKeysAndReturnValue ==
    (cmd_pc = "return" /\ cmd_ret.ok)
        => /\ DOMAIN cmd_ret.val = {"stdout", "stderr", "return-value"}
           /\ output.code.some
                => /\ IsDecimal(cmd_ret.val["return-value"])
                   /\ DecimalValue(cmd_ret.val["return-value"]) = output.code.v
           /\ ~output.code.some => cmd_ret.val["return-value"] = SignalText

C6_Witness ==
    /\ cmd_pc = "return" /\ cmd_ret.ok
    /\ ~output.code.some
    /\ cmd_ret.val["stdout"] = <<104, 105>>
    /\ cmd_ret.val["stderr"] = <<233>>

\* The stream is well-formed UTF-8: every byte is ASCII, a lead byte with
\* its continuation byte next, or a continuation byte with its lead before.
WellFormed(bytes) ==
    \A i \in DOMAIN bytes :
        \/ bytes[i] < 128
        \/ /\ bytes[i] \in 194..223
           /\ i < Len(bytes) /\ bytes[i + 1] \in 128..191
        \/ /\ bytes[i] \in 128..191
           /\ i > 1 /\ bytes[i - 1] \in 194..223

\* C7: when the process cannot be spawned, or its stdout or its stderr is
\* not UTF-8, run_command returns an error and no map, whatever the other
\* stream and the exit status are.
C7_NoPartialByproducts ==
    ( /\ cmd_pc = "return"
      /\ \/ ~CanSpawn(fs, cmd_args[1], run_dir)
         \/ ~WellFormed(output.stdout)
         \/ ~WellFormed(output.stderr) )
        => ~cmd_ret.ok /\ cmd_ret.val = <<>>

C7_Witness ==
    /\ cmd_pc = "return" /\ ~cmd_ret.ok
    /\ child.some /\ Len(emitted) = 2
    /\ output.stdout = <<104, 105>> /\ output.stderr = <<195>>
    /\ output.code = Some(0)

\* C8: the child is given exactly cmd_args[1..], the same strings in the
\* same order, whatever became of resolving each of them.
C8_ArgumentsPassedUnchanged ==
    child.some
        => /\ child.v.exe = cmd_args[1]
           /\ child.v.args = Tail(cmd_args)

C8_Witness ==
    /\ child.some
    /\ cmd_args = << <<"sh">>, <<"t">>, <<"-c">>, <<>> >>
    /\ Canonicalize(fs, <<"t">>).ok
    /\ ~Canonicalize(fs, <<"-c">>).ok
    /\ ~VirtualTargetPathNew(<<>>).ok

\* Where the link at loc leads, every link followed.
LinkTarget(f, loc) == StatFrom(f, Parent(loc), <<loc[Len(loc)]>>)

\* The links below the root path r that lead to a regular file.
FileLinksBelow(f, r) ==
    {loc \in LinkLocs(f) \cap Below(f, r) : KindAt(f, LinkTarget(f, loc)) = "file"}

\* The path the walk from the root path r gives the location loc below it.
PathFrom(f, r, loc) ==
    clean(r \o SubSeq(loc, Len(StatFrom(f, <<>>, r).val) + 1, Len(loc)))

\* C11: a symbolic link below a root path that leads to a regular file has
\* an entry in the returned map under the link's own path, and its digests
\* are those of the content of the file it leads to.
C11_LinkToFileHasTargetDigest ==
    ( /\ ra_pc = "return"
      /\ AlgorithmsValid(hash_names)
      /\ RootsExist(fs, roots)
      /\ ValidTree(fs) )
        => \A i \in DOMAIN roots : \A loc \in FileLinksBelow(fs, roots[i]) :
              /\ ra_ret.ok
              /\ PathFrom(fs, roots[i], loc) \in DOMAIN ra_ret.val
              /\ \A a \in DOMAIN ra_ret.val[PathFrom(fs, roots[i], loc)] :
                    ra_ret.val[PathFrom(fs, roots[i], loc)][a]
                        = <<a, Lookup(fs, LinkTarget(fs, loc).val).content>>

\* ------------------------------- the caller of record_artifact, and
\* ------------------------------- root paths spelled in several ways

\* t with the files .h and f, the directory d with the file g, and l -> /t/d.
PathTrees ==
    { [BaseTree EXCEPT ![<<"t", ".h">>] = File(2), ![<<"t", "l">>] = l,
                       ![<<"t", "d">>] = Dir, ![<<"t", "d", "g">>] = File(3)] :
        l \in {NoEntry, Link(TRUE, <<"t", "d">>)} }

\* t/f, ./t/f, t/d/../f, t//f, t/f/, t/d/g, t/l/g, t, nx
SpelledPaths ==
    { <<"t", "f">>, <<".", "t", "f">>, <<"t", "d", "..", "f">>,
      <<"t", "", "f">>, <<"t", "f", "">>, <<"t", "d", "g">>,
      <<"t", "l", "g">>, <<"t">>, <<"nx">> }

\* t, ./t, t/, t/d/.., ./t/d, t/l
SpelledRoots ==
    { <<"t">>, <<".", "t">>, <<"t", "">>, <<"t", "d", "..">>,
      <<".", "t", "d">>, <<"t", "l">> }

AlgorithmLists == {<<"Sha256">>, <<"Sha256", "Sha512">>}

\* Lines 24-32: record_artifact called by itself; its result is ready.
CallRecordArtifact ==
    /\ top = "none" /\ calls = 0
    /\ \E p \in SpelledPaths, h \in AlgorithmLists :
          /\ args' = [NoArgs EXCEPT !.paths = <<p>>, !.hash = Some(h)]
          /\ ret' = record_artifact(fs, p, h)
    /\ top' = "record_artifact"
    /\ calls' = calls + 1
    /\ UNCHANGED <<prev, fs, changed, raVars, cmdVars, runVars>>

ReturnRecordArtifact ==
    /\ top = "record_artifact"
    /\ top' = "none"
    /\ UNCHANGED <<calls, args, ret, prev, fs, changed, raVars, cmdVars, runVars>>

\* record_artifacts called with root paths spelled in several ways.
CallRecordArtifactsSpelled ==
    /\ top = "none" /\ calls = 0
    /\ \E p \in SeqsUpTo(SpelledRoots, MaxRoots) :
          /\ args' = [NoArgs EXCEPT !.paths = p]
          /\ EnterRecordArtifacts(p, None)
    /\ top' = "record_artifacts"
    /\ calls' = calls + 1
    /\ UNCHANGED <<ret, prev, fs, changed, cmdVars, runVars>>

InitPaths == fs \in PathTrees /\ InitRest

NextPaths ==
    \/ CallRecordArtifact
    \/ ReturnRecordArtifact
    \/ CallRecordArtifactsSpelled
    \/ RecordArtifactsStep
    \/ ReturnRecordArtifacts

\* The caller calls record_artifact, or record_artifacts.
SpecPaths == InitPaths /\ [][NextPaths]_vars

\* The path has no "." segment (unless it is "." alone), no empty segment
\* (no doubled or trailing slash), and no ".." after a named segment.
IsNormalized(p) ==
    /\ p # <<>>
    /\ \A i \in DOMAIN p :
          /\ p[i] # ""
          /\ p[i] = "." => p = <<".">>
          /\ (p[i] = ".." /\ i > 1) => p[i - 1] = ".."

\* The keys of the map record_artifacts is about to return are normalized.
KeysNormalized ==
    (ra_pc = "return" /\ ra_ret.ok)
        => \A k \in DOMAIN ra_ret.val : IsNormalized(k)

DefaultIsSha256 ==
    /\ (ra_pc \in {"for", "loop", "return"} /\ ~hash_names.some)
          => hash_algorithms = <<"Sha256">>
    /\ (ra_pc = "return" /\ ra_ret.ok /\ ~hash_names.some)
          => \A k \in DOMAIN ra_ret.val : DOMAIN ra_ret.val[k] = {"Sha256"}

\* ------------------------------------ trees with links to one target

\* t with the file f, the directory d with the file g, and two links .h
\* and l that lead to the same place: the file /t/f, or the directory /t/d.
LinkTrees ==
    { [BaseTree EXCEPT ![<<"t", ".h">>] = Link(TRUE, x),
                       ![<<"t", "l">>] = Link(TRUE, x),
                       ![<<"t", "d">>] = Dir, ![<<"t", "d", "g">>] = File(3)] :
        x \in {<<"t", "f">>, <<"t", "d">>} }

InitLinks == fs \in LinkTrees /\ InitRest

NextLinks ==
    \/ CallRecordArtifacts
    \/ RecordArtifactsStep
    \/ ReturnRecordArtifacts

\* The caller calls record_artifacts on a tree with two links to one target.
SpecLinks == InitLinks /\ [][NextLinks]_vars

\* The link at loc below the root path r was hashed, or descended into: the
\* map has its path, or a path below it, as a key.
TakenUp(f, m, r, loc) ==
    \E k \in DOMAIN m : IsPrefix(PathFrom(f, r, loc), k)

\* C14: within the traversal of one root path, of two symbolic links that
\* lead to the same target only the first is hashed or descended into: when
\* the second is met its target has been visited already.
C14_VisitedTargetNotTakenUpAgain ==
    ( /\ ra_pc = "return" /\ ra_ret.ok
      /\ Len(roots) = 1
      /\ ValidTree(fs) )
        => \A a, b \in LinkLocs(fs) \cap Below(fs, roots[1]) :
              ( /\ a # b
                /\ LinkTarget(fs, a) = LinkTarget(fs, b)
                /\ TakenUp(fs, ra_ret.val, roots[1], a) )
                  => ~TakenUp(fs, ra_ret.val, roots[1], b)

\* ------------------------------------ the root paths in another order

OrderRoots == {<<"t">>, <<".", "t", "d">>, <<"t", "l">>}

CallRecordArtifactsFirst ==
    /\ top = "none" /\ calls = 0
    /\ \E p \in SeqsUpTo(OrderRoots, MaxRoots) :
          /\ args' = [NoArgs EXCEPT !.paths = p]
          /\ EnterRecordArtifacts(p, None)
    /\ top' = "record_artifacts"
    /\ calls' = calls + 1
    /\ UNCHANGED <<ret, prev, fs, changed, cmdVars, runVars>>

\* A second call with the same root paths in any order, each any number of
\* times.
CallRecordArtifactsReordered ==
    /\ top = "none" /\ calls = 1
    /\ \E q \in SeqsUpTo(OrderRoots, MaxRoots) :
          /\ Range(q) = Range(args.paths)
          /\ EnterRecordArtifacts(q, args.hash)
    /\ top' = "record_artifacts"
    /\ calls' = calls + 1
    /\ prev' = ret
    /\ UNCHANGED <<args, ret, fs, changed, cmdVars, runVars>>

InitOrder == fs \in Trees /\ InitRest

NextOrder ==
    \/ CallRecordArtifactsFirst
    \/ CallRecordArtifactsReordered
    \/ RecordArtifactsStep
    \/ ReturnRecordArtifacts

\* The caller calls record_artifacts twice, the roots reordered.
SpecOrder == InitOrder /\ [][NextOrder]_vars

\* C15: with the tree unchanged, the map of a successful record_artifacts
\* is the map of every call with the same root paths in another order or
\* repeated; a path reached from several roots is there once.
C15_RootOrderIrrelevant ==
    (top = "none" /\ calls = 2 /\ prev.ok) => ret = prev

C15_Witness ==
    /\ top = "none" /\ calls = 2 /\ prev.ok /\ ret.ok
    /\ args.paths = << <<"t">>, <<".", "t", "d">> >>
    /\ roots = << <<".", "t", "d">>, <<"t">> >>
    /\ <<"t", "d", "g">> \in DOMAIN ret.val
    /\ <<"t", "f">> \in DOMAIN ret.val

\* C16: run_command writes the captured stdout and then the captured stderr
\* to the caller's streams before it decodes either: both are written when
\* the call returns an encoding error or a map, and a write that fails ends
\* the call with an error and no map.
C16_EmittedBeforeDecoded ==
    /\ child.some => IsPrefix(emitted, <<output.stdout, output.stderr>>)
    /\ cmd_pc = "decode" => emitted = <<output.stdout, output.stderr>>
    /\ (cmd_pc = "return" /\ child.some /\ Len(emitted) = 2)
          => /\ cmd_ret = Decode(output)
             /\ emitted = <<output.stdout, output.stderr>>
    /\ (cmd_pc = "return" /\ child.some /\ Len(emitted) < 2)
          => /\ ~cmd_ret.ok /\ cmd_ret.val = <<>>
             /\ cmd_ret.err[2] \in {<<"write stdout">>, <<"write stderr">>}
    /\ (cmd_pc = "return" /\ (cmd_ret.ok \/ cmd_ret.err[2] = <<"Utf8Error">>))
          => Len(emitted) = 2

C16_Witness ==
    /\ cmd_pc = "return" /\ ~cmd_ret.ok
    /\ cmd_ret.err[2] = <<"Utf8Error">>
    /\ output.stdout = <<195>> /\ output.stderr = <<104, 105>>
    /\ emitted = << <<195>>, <<104, 105>> >>

\* C17: with an empty cmd_args run_command spawns no process and returns
\* neither a map nor an error: it panics at cmd_args[0]; in in_toto_run
\* the materials are recorded by then and the products are not.
C17_EmptyCommandPanics ==
    /\ (cmd_pc \notin {"idle", "args"} /\ cmd_args = <<>>)
          => /\ cmd_pc = "panic"
             /\ ~child.some /\ output = NoOutput /\ emitted = <<>>
             /\ cmd_ret = Pending
    /\ cmd_pc = "panic"
          => /\ cmd_args = <<>>
             /\ top \in {"run_command", "in_toto_run", "panicked"}
             /\ ret = Pending
             /\ phase # "idle"
                  => /\ phase = "command"
                     /\ materials.ok /\ byproducts = Pending
                     /\ products = Pending
                     /\ trace = SubSeq(StepOrder, 1, 2)

C17_Witness ==
    /\ top = "panicked" /\ cmd_pc = "panic" /\ cmd_args = <<>>
    /\ phase = "command"
    /\ ret = Pending /\ ~child.some
    /\ materials.ok /\ <<"t", "f">> \in DOMAIN materials.val
    /\ products = Pending

====
